---- MODULE Spec2Model ----
(***************************************************************************)
(* A model of the GSpreadSheet class: the legacy constructor-based class   *)
(* (src/GSpreadSheet.js) and the factory-based class with fromExport and   *)
(* fromAPI (src/unnamed/part_000).                                         *)
(*                                                                         *)
(* Strings are sequences of one-character strings.  A JavaScript value is  *)
(* a record [t, s, e, p]: t is its type tag ("undef", "hole", "str",       *)
(* "arr"), s the characters of a string, e the indexed elements of an      *)
(* array (a "hole" is a slot never assigned), p the named properties of an *)
(* array in insertion order, each [k |-> key, v |-> value].                *)
(***************************************************************************)
EXTENDS Integers, Sequences, FiniteSets, TLC

\* Bounds: the number of cells of the published sheet, for the runs that load
\* it (LoadSpec) and for the runs that also call its methods (Spec).
MaxCells == 4
MaxCallCells == 2

\* The cell texts the published sheet draws from: the empty cell, a plain
\* text, and a text that spells an array index.
Cells == { <<>>, <<"a">>, <<"1">> }

COMMA == ","
NL == "\n"

------------------------------------------------------------------------------
\* JavaScript values

Undef == [t |-> "undef", s |-> <<>>, e |-> <<>>, p |-> <<>>]
Hole == [t |-> "hole", s |-> <<>>, e |-> <<>>, p |-> <<>>]
Str(chars) == [t |-> "str", s |-> chars, e |-> <<>>, p |-> <<>>]
Arr(elems) == [t |-> "arr", s |-> <<>>, e |-> elems, p |-> <<>>]

\* Array(n): n slots, none assigned.
ArrayNew(n) == Arr([i \in 1..n |-> Hole])

\* An array of strings, as String.prototype.split and JSON.parse build it.
StrArray(ss) == Arr([i \in 1..Len(ss) |-> Str(ss[i])])

Digits == <<"0", "1", "2", "3", "4", "5", "6", "7", "8", "9">>
DigitVal(ch) == (CHOOSE i \in 1..10 : Digits[i] = ch) - 1
IsDigit(ch) == \E i \in 1..10 : Digits[i] = ch

\* A property key is an array index when it is the canonical decimal text of
\* a non-negative integer ("0", "7", "12"; not "", "01", "-1").
IsIndex(key) ==
    /\ Len(key) >= 1
    /\ \A i \in 1..Len(key) : IsDigit(key[i])
    /\ (Len(key) > 1 => key[1] # "0")

RECURSIVE ToIndex(_)
ToIndex(key) ==
    IF Len(key) = 0 THEN 0
    ELSE 10 * ToIndex(SubSeq(key, 1, Len(key) - 1)) + DigitVal(key[Len(key)])

\* ToString of a number used as a property key.
RECURSIVE NatKey(_)
NatKey(n) == IF n < 10 THEN <<Digits[n + 1]>> ELSE NatKey(n \div 10) \o <<Digits[(n % 10) + 1]>>
NumKey(n) == IF n < 0 THEN <<"-">> \o NatKey(-n) ELSE NatKey(n)

UndefinedText == <<"u", "n", "d", "e", "f", "i", "n", "e", "d">>

\* ToString of a value: string concatenation and property-key conversion.
ToStr(v) == IF v.t = "str" THEN v.s ELSE UndefinedText

HasProp(props, key) == \E i \in 1..Len(props) : props[i].k = key
PropGet(props, key) ==
    IF HasProp(props, key)
    THEN props[CHOOSE i \in 1..Len(props) : props[i].k = key].v
    ELSE Undef
PropSet(props, key, v) ==
    IF HasProp(props, key)
    THEN [i \in 1..Len(props) |-> IF props[i].k = key THEN [k |-> key, v |-> v] ELSE props[i]]
    ELSE Append(props, [k |-> key, v |-> v])

\* a[key] on an array or a string: an unassigned slot and a missing key read
\* as undefined; a string yields its character.
ValGet(a, key) ==
    IF a.t = "arr"
    THEN IF IsIndex(key)
         THEN IF ToIndex(key) < Len(a.e) /\ a.e[ToIndex(key) + 1].t # "hole"
              THEN a.e[ToIndex(key) + 1]
              ELSE Undef
         ELSE PropGet(a.p, key)
    ELSE IF a.t = "str" /\ IsIndex(key) /\ ToIndex(key) < Len(a.s)
         THEN Str(<<a.s[ToIndex(key) + 1]>>)
         ELSE Undef

\* a[key] = v on an array: an index at or past the length grows the array,
\* leaving the slots between unassigned; any other key is a named property.
ArrSet(a, key, v) ==
    IF IsIndex(key)
    THEN LET i == ToIndex(key) IN
         IF i < Len(a.e)
         THEN [a EXCEPT !.e[i + 1] = v]
         ELSE [a EXCEPT !.e = a.e \o [j \in 1..(i - Len(a.e)) |-> Hole] \o <<v>>]
    ELSE [a EXCEPT !.p = PropSet(a.p, key, v)]

\* String.prototype.split with a one-character separator.
RECURSIVE Split(_, _)
Split(s, sep) ==
    IF \A i \in 1..Len(s) : s[i] # sep
    THEN <<s>>
    ELSE LET i == CHOOSE i \in 1..Len(s) : s[i] = sep /\ \A j \in 1..(i - 1) : s[j] # sep
         IN <<SubSeq(s, 1, i - 1)>> \o Split(SubSeq(s, i + 1, Len(s)), sep)

\* String.prototype.substr(0, n): a negative n yields the empty string.
Substr0(s, n) == IF n <= 0 THEN <<>> ELSE SubSeq(s, 1, IF n < Len(s) THEN n ELSE Len(s))

------------------------------------------------------------------------------
\* The published sheet and the two response bodies

\* The published sheet: a sequence of lines, each a non-empty sequence of
\* cell texts.  BuildGrid cuts the cells cs into lines after every cell i
\* with brk[i].
RECURSIVE BuildGrid(_, _, _, _)
BuildGrid(cs, brk, i, cur) ==
    IF i > Len(cs) THEN <<cur>>
    ELSE IF i > 1 /\ brk[i - 1]
         THEN <<cur>> \o BuildGrid(cs, brk, i + 1, <<cs[i]>>)
         ELSE BuildGrid(cs, brk, i + 1, Append(cur, cs[i]))

Grids(max) ==
    { <<>> } \cup
    UNION { { BuildGrid(cs, brk, 1, <<>>) : cs \in [1..n -> Cells], brk \in [1..(n - 1) -> BOOLEAN] }
            : n \in 1..max }

RECURSIVE JoinWith(_, _)
JoinWith(parts, sep) ==
    IF Len(parts) = 0 THEN <<>>
    ELSE IF Len(parts) = 1 THEN parts[1]
    ELSE parts[1] \o <<sep>> \o JoinWith(Tail(parts), sep)

\* The body of the export URL: the sheet as CSV text.
CSVBody(grid) == JoinWith([i \in 1..Len(grid) |-> JoinWith(grid[i], COMMA)], NL)

\* JSON.parse(body).values of the API URL: the sheet as an array of arrays.
JSONValues(grid) == [i \in 1..Len(grid) |-> StrArray(grid[i])]

------------------------------------------------------------------------------
\* The load handlers

\* headers.forEach((hval, hindex) => row[hval] = row[hindex]), from hindex on.
RECURSIVE AliasRow(_, _, _)
AliasRow(row, hdrs, hindex) ==
    IF hindex >= Len(hdrs.e) THEN row
    ELSE AliasRow(ArrSet(row, ToStr(hdrs.e[hindex + 1]), ValGet(row, NumKey(hindex))),
                  hdrs, hindex + 1)

\* raw.forEach((val, index) => ...), from index on: the header row goes to
\* headers, every other row to _rows, with its header aliases.  raw holds the
\* row arrays (val.split(',') of a CSV line, or a row of the JSON values).
RECURSIVE FillRows(_, _, _, _)
FillRows(raw, hdr, index, st) ==
    IF index >= Len(raw) THEN st
    ELSE IF hdr
         THEN IF index = 0
              THEN FillRows(raw, hdr, 1, [st EXCEPT !.headers = raw[1]])
              ELSE FillRows(raw, hdr, index + 1,
                     [st EXCEPT !.rows = ArrSet(st.rows, NumKey(index - 1),
                                                AliasRow(raw[index + 1], st.headers, 0))])
         ELSE FillRows(raw, hdr, index + 1,
                [st EXCEPT !.rows = ArrSet(st.rows, NumKey(index), raw[index + 1])])

\* The comma expression of the JSON handler, made in the CSV handlers.
CSVCell_CommaIndex(cols, rows, hdrs, hdr, colIndex, rowIndex) ==
    LET c1 == ArrSet(cols, NumKey(rowIndex), ValGet(rows.e[rowIndex + 1], NumKey(colIndex)))
    IN IF hdr
       THEN ArrSet(c1, ToStr(ValGet(hdrs, NumKey(colIndex))), ValGet(c1, NumKey(colIndex)))
       ELSE c1

\* The body of this._rows.forEach in the CSV handlers, for one row:
\* cols[colIndex][rowIndex] = rows[rowIndex][colIndex], then the header alias.
CSVCell(cols, rows, hdrs, hdr, colIndex, rowIndex) ==
    LET c1 == ArrSet(cols, NumKey(colIndex),
                     ArrSet(ValGet(cols, NumKey(colIndex)), NumKey(rowIndex),
                            ValGet(rows.e[rowIndex + 1], NumKey(colIndex))))
    IN IF hdr
       THEN ArrSet(c1, ToStr(ValGet(hdrs, NumKey(colIndex))), ValGet(c1, NumKey(colIndex)))
       ELSE c1

\* The body of this._rows.forEach in the JSON handler, for one row:
\* cols[colIndex, rowIndex] is cols[rowIndex] (a comma expression).
JSONCell(cols, rows, hdrs, hdr, colIndex, rowIndex) ==
    LET c1 == ArrSet(cols, NumKey(rowIndex), ValGet(rows.e[rowIndex + 1], NumKey(colIndex)))
    IN IF hdr
       THEN ArrSet(c1, ToStr(ValGet(hdrs, NumKey(colIndex))), ValGet(c1, NumKey(colIndex)))
       ELSE c1

RECURSIVE ColRows(_, _, _, _, _, _, _)
ColRows(json, cols, rows, hdrs, hdr, colIndex, rowIndex) ==
    IF rowIndex >= Len(rows.e) THEN cols
    ELSE ColRows(json,
                 IF json THEN JSONCell(cols, rows, hdrs, hdr, colIndex, rowIndex)
                         ELSE CSVCell(cols, rows, hdrs, hdr, colIndex, rowIndex),
                 rows, hdrs, hdr, colIndex, rowIndex + 1)

\* for (colIndex = 0; colIndex < rows[0].length; colIndex++), from colIndex on.
RECURSIVE ColLoop(_, _, _, _, _, _)
ColLoop(json, cols, rows, hdrs, hdr, colIndex) ==
    IF colIndex >= Len(rows.e[1].e) THEN cols
    ELSE ColLoop(json,
                 ColRows(json, ArrSet(cols, NumKey(colIndex), ArrayNew(Len(rows.e))),
                         rows, hdrs, hdr, colIndex, 0),
                 rows, hdrs, hdr, colIndex + 1)

\* A row count one too large instead of one too small.
LegacyRowCount_OneMore(n, hdr) == n + 1

\* The length given to Array() for _rows.
LegacyRowCount(n, hdr) == n - (IF hdr THEN 2 ELSE 1)
RowCount(n, hdr) == n - (IF hdr THEN 1 ELSE 0)

\* What a handler leaves behind: the three fields, whether it threw before
\* its end, and the arguments of its onLoad call ("this", "none") if it made
\* one.
Outcome(rows, hdrs, cols, thrown, args) ==
    [rows |-> rows, headers |-> hdrs, cols |-> cols, thrown |-> thrown, onLoad |-> args]

\* The handler from Array(count) on: Array throws a RangeError on a negative
\* length, and rows[0].length a TypeError when there is no row 0.
Assign(json, raw, hdr, count, arg) ==
    IF count < 0 THEN Outcome(Undef, Undef, Undef, TRUE, <<>>)
    ELSE LET st == FillRows(raw, hdr, 0, [rows |-> ArrayNew(count), headers |-> Undef])
         IN IF ValGet(st.rows, NumKey(0)).t # "arr"
            THEN Outcome(st.rows, st.headers, Undef, TRUE, <<>>)
            ELSE Outcome(st.rows, st.headers,
                         ColLoop(json, ArrayNew(Len(st.rows.e[1].e)), st.rows, st.headers, hdr, 0),
                         FALSE, <<arg>>)

SplitRows(text) ==
    LET responseRows == Split(text, NL)
    IN [i \in 1..Len(responseRows) |-> StrArray(Split(responseRows[i], COMMA))]

valueAssignment(text, hdr) ==
    Assign(FALSE, SplitRows(text), hdr, LegacyRowCount(Len(SplitRows(text)), hdr), "none")

CSVValueAssignment(text, hdr) ==
    Assign(FALSE, SplitRows(text), hdr, RowCount(Len(SplitRows(text)), hdr), "this")

JSONValueAssignment(rawData, hdr) ==
    Assign(TRUE, rawData, hdr, RowCount(Len(rawData), hdr), "this")

------------------------------------------------------------------------------
\* The sheet object, its request, and the calls made on it

VARIABLES
    variant,      \* how the sheet was created: "legacy", "export" or "api"
    hasHeader,    \* this.hasHeader
    sheetData,    \* the published sheet the request's URL names
    pc,           \* "pending": request sent; "loaded": the onload handler ran
                  \* to its end; "failed": it threw; "error": the transport
                  \* failed and onload never fires
    _rows,        \* this._rows
    _cols,        \* this._cols
    headers,      \* this.headers
    onLoadCalls,  \* the arguments of every call of this.onLoad so far
    result        \* the outcome of the last call of a method of the sheet

vars == <<variant, hasHeader, sheetData, pc, _rows, _cols, headers, onLoadCalls, result>>

Variants == {"legacy", "export", "api"}

\* The outcome of a call: the method, the state of the request when it was
\* called, whether it returned or threw, and the value or the table returned.
NoResult == [op |-> "none", at |-> "none", kind |-> "none", v |-> Undef, tbl |-> <<>>]
Return(op, v) == [op |-> op, at |-> pc, kind |-> "return", v |-> v, tbl |-> <<>>]
ReturnTable(op, tbl) == [op |-> op, at |-> pc, kind |-> "return", v |-> Undef, tbl |-> tbl]
Throw(op) == [op |-> op, at |-> pc, kind |-> "throw", v |-> Undef, tbl |-> <<>>]

\* The numbers and the keys the callers pass to row, col and get.
RowArgs == -1..MaxCallCells
ColArgs == { NumKey(i) : i \in RowArgs } \cup Cells \cup { <<"z">> }

\* The state after the constructor or factory returned: the fields set, the
\* request sent, nothing loaded.
Created(sheets) ==
    /\ variant \in Variants
    /\ hasHeader \in BOOLEAN
    /\ sheetData \in sheets
    /\ pc = "pending"
    /\ _rows = Undef
    /\ _cols = Undef
    /\ headers = Undef
    /\ onLoadCalls = <<>>
    /\ result = NoResult

Init == Created(Grids(MaxCallCells))
LoadInit == Created(Grids(MaxCells))

\* What the handler bound to request.onload does with the response.
Handler ==
    CASE variant = "legacy" -> valueAssignment(CSVBody(sheetData), hasHeader)
      [] variant = "export" -> CSVValueAssignment(CSVBody(sheetData), hasHeader)
      [] variant = "api" -> JSONValueAssignment(JSONValues(sheetData), hasHeader)

\* The request is sent once, so onload fires at most once.
CanLoad == pc = "pending"

\* request.onload: the whole handler, its onLoad call included.
Load ==
    /\ CanLoad
    /\ LET out == Handler IN
       /\ _rows' = out.rows
       /\ _cols' = out.cols
       /\ headers' = out.headers
       /\ onLoadCalls' = onLoadCalls \o out.onLoad
       /\ pc' = IF out.thrown THEN "failed" ELSE "loaded"
    /\ UNCHANGED <<variant, hasHeader, sheetData, result>>

\* The transport fails: no onload event, and no other handler is set.
TransportError ==
    /\ pc = "pending"
    /\ pc' = "error"
    /\ UNCHANGED <<variant, hasHeader, sheetData, _rows, _cols, headers, onLoadCalls, result>>

\* A row accessor that checks its index.
row_Checked(index) ==
    IF _rows.t = "undef" \/ index < 0 \/ index >= Len(_rows.e)
    THEN Throw("row")
    ELSE Return("row", ValGet(_rows, NumKey(index)))

\* row(index): this.rows[index]
row(index) ==
    IF _rows.t = "undef" THEN Throw("row") ELSE Return("row", ValGet(_rows, NumKey(index)))

\* col(index): this.cols[index]
col(key) ==
    IF _cols.t = "undef" THEN Throw("col") ELSE Return("col", ValGet(_cols, key))

\* get(column, row): this.cols[column][row]
get(column, index) ==
    IF _cols.t = "undef" \/ ValGet(_cols, column).t = "undef"
    THEN Throw("get")
    ELSE Return("get", ValGet(ValGet(_cols, column), NumKey(index)))

\* arr.forEach(cell => result += cell + ","), from slot i on (forEach skips
\* the slots never assigned).
RECURSIVE AppendCells(_, _, _)
AppendCells(text, arr, i) ==
    IF i > Len(arr.e) THEN text
    ELSE AppendCells(IF arr.e[i].t = "hole" THEN text ELSE text \o ToStr(arr.e[i]) \o <<COMMA>>,
                     arr, i + 1)

\* result.substr(0, result.length - 2)
Chop(text) == Substr0(text, Len(text) - 2)

\* One line of toString: the cells, the chop, the newline.
AppendLine(text, arr) == Chop(AppendCells(text, arr, 1)) \o <<NL>>

RECURSIVE AppendRows(_, _, _)
AppendRows(text, rows, i) ==
    IF i > Len(rows.e) THEN text
    ELSE AppendRows(IF rows.e[i].t = "hole" THEN text ELSE AppendLine(text, rows.e[i]), rows, i + 1)

\* toString()
toString ==
    IF (hasHeader /\ headers.t = "undef") \/ _rows.t = "undef"
    THEN Throw("toString")
    ELSE Return("toString",
                Str(Chop(AppendRows(IF hasHeader THEN AppendLine(<<>>, headers) ELSE <<>>,
                                    _rows, 1))))

\* One tr of createTable: a cell per assigned slot, its innerText the value.
TableRow(tag, arr) ==
    [tag |-> tag,
     cells |-> [i \in 1..Cardinality({j \in 1..Len(arr.e) : arr.e[j].t # "hole"}) |->
                  ToStr(arr.e[CHOOSE j \in 1..Len(arr.e) :
                                /\ arr.e[j].t # "hole"
                                /\ Cardinality({m \in 1..j : arr.e[m].t # "hole"}) = i])]]

\* createTable()
createTable ==
    IF (hasHeader /\ headers.t = "undef") \/ _rows.t = "undef"
    THEN Throw("createTable")
    ELSE ReturnTable("createTable",
                     (IF hasHeader THEN <<TableRow("th", headers)>> ELSE <<>>) \o
                     [i \in 1..Len(_rows.e) |-> TableRow("td", _rows.e[i])])

\* A call of a method leaves the sheet as it is and yields a result.
Frame == UNCHANGED <<variant, hasHeader, sheetData, pc, _rows, _cols, headers, onLoadCalls>>

CallRow == \E i \in RowArgs : result' = row(i) /\ Frame
CallCol == \E k \in ColArgs : result' = col(k) /\ Frame
CallGet == \E k \in ColArgs, i \in RowArgs : result' = get(k, i) /\ Frame
\* A toString that consumes the rows it prints.
CallToString_Consuming ==
    /\ result' = toString
    /\ _rows' = IF _rows.t = "arr" THEN ArrayNew(0) ELSE _rows
    /\ UNCHANGED <<variant, hasHeader, sheetData, pc, _cols, headers, onLoadCalls>>

CallToString == result' = toString /\ Frame
CallCreateTable == result' = createTable /\ Frame

Next ==
    \/ Load
    \/ CallRow
    \/ CallCol
    \/ CallGet
    \/ CallToString
    \/ CallCreateTable

Spec == Init /\ [][Next]_vars

\* The loading alone, on larger sheets, with the transport free to fail.
LoadNext ==
    \/ Load
    \/ TransportError

LoadSpec == LoadInit /\ [][LoadNext]_vars

------------------------------------------------------------------------------
\* Properties

\* The sheet is a rectangle of at least one line.
IsRect(grid) == Len(grid) >= 1 /\ \A i \in 1..Len(grid) : Len(grid[i]) = Len(grid[1])

CSVVariant == variant \in {"legacy", "export"}

\* rows[r][c] and cols[c][r] of the loaded sheet.
RowCell(r, c) == ValGet(ValGet(_rows, NumKey(r)), NumKey(c))
ColCell(c, r) == ValGet(ValGet(_cols, NumKey(c)), NumKey(r))

\* C1: a rectangular CSV payload of R lines and C fields loaded without
\* headers gives rows.length = R, cols.length = C, and get(c, r), rows[r][c]
\* and cols[c][r] all equal to field c of line r.
C1_RowsAndColsAgree ==
    (pc = "loaded" /\ CSVVariant /\ ~hasHeader /\ IsRect(sheetData)) =>
        /\ Len(_rows.e) = Len(sheetData)
        /\ Len(_cols.e) = Len(sheetData[1])
        /\ \A r \in 0..(Len(sheetData) - 1), c \in 0..(Len(sheetData[1]) - 1) :
              /\ get(NumKey(c), r) = Return("get", Str(sheetData[r + 1][c + 1]))
              /\ RowCell(r, c) = Str(sheetData[r + 1][c + 1])
              /\ ColCell(c, r) = Str(sheetData[r + 1][c + 1])

C1_Witness ==
    /\ pc = "loaded" /\ variant = "export" /\ ~hasHeader
    /\ Len(sheetData) = 2 /\ Len(sheetData[1]) = 2 /\ Len(sheetData[2]) = 2
    /\ sheetData[1][2] # sheetData[2][1]
    /\ ColCell(1, 0) = Str(sheetData[1][2])

HeaderText(c) == ToStr(ValGet(headers, NumKey(c)))
DistinctHeaders ==
    \A i, j \in 1..Len(sheetData[1]) : i # j => sheetData[1][i] # sheetData[1][j]

\* C2: a rectangular payload with a header row of C fields and at least one
\* data row gives headers.length = C = cols.length, col(h) the column col(c)
\* for the header h at position c, and row(r)[h] = row(r)[c] for every data
\* row r.  Stated here for the export variant and pairwise distinct headers.
C2_HeaderAliases ==
    (pc = "loaded" /\ variant = "export" /\ hasHeader /\ IsRect(sheetData)
        /\ Len(sheetData) >= 2 /\ DistinctHeaders) =>
        /\ Len(headers.e) = Len(sheetData[1])
        /\ Len(_cols.e) = Len(sheetData[1])
        /\ \A c \in 0..(Len(sheetData[1]) - 1) :
              /\ col(HeaderText(c)) = col(NumKey(c))
              /\ \A r \in 0..(Len(sheetData) - 2) :
                    ValGet(row(r).v, HeaderText(c)) = ValGet(row(r).v, NumKey(c))

RECURSIVE StripNL(_)
StripNL(text) ==
    IF Len(text) > 0 /\ text[Len(text)] = NL THEN StripNL(SubSeq(text, 1, Len(text) - 1)) ELSE text

\* C3: toString of a sheet loaded from the CSV text T returns T, up to
\* trailing newlines.
C3_RoundTrip ==
    (CSVVariant /\ result.op = "toString" /\ result.at = "loaded") =>
        /\ result.kind = "return"
        /\ StripNL(result.v.s) = StripNL(CSVBody(sheetData))

\* C4: the callback is called only by the load handler, exactly once when
\* the handler has run, with rows and cols populated and the sheet as its
\* argument.
C4_CallbackOnceWithSheet ==
    /\ (pc \in {"pending", "error"} => onLoadCalls = <<>>)
    /\ (pc \in {"loaded", "failed"} =>
            onLoadCalls = <<"this">> /\ _rows.t = "arr" /\ _cols.t = "arr")

ColLength(k) == IF col(k).v.t = "arr" THEN Len(col(k).v.e) ELSE Len(col(k).v.s)
IsHeader(k) == hasHeader /\ \E j \in 1..Len(headers.e) : ToStr(headers.e[j]) = k
\* k names nothing in cols: an index at or past cols.length, or a text that
\* is neither an index nor a header.
NotInCols(k) == IF IsIndex(k) THEN ToIndex(k) >= Len(_cols.e) ELSE ~IsHeader(k)

NoDataRows ==
    \/ sheetData = <<>>
    \/ (CSVVariant /\ CSVBody(sheetData) = <<>>)
    \/ (hasHeader /\ Len(sheetData) = 1)

\* C6: a payload with no data row loads without failure into a sheet of no
\* rows and no columns, and the callback is called.
C6_EmptySheetLoads ==
    (pc \in {"loaded", "failed"} /\ NoDataRows) =>
        /\ pc = "loaded"
        /\ _rows = ArrayNew(0)
        /\ _cols = ArrayNew(0)
        /\ Len(onLoadCalls) = 1

\* C7: the API variant leaves the rows, headers and cols that the export
\* variant leaves for the CSV text of the same rectangular sheet.
C7_APIMatchesExport ==
    (pc = "loaded" /\ variant = "api" /\ IsRect(sheetData)) =>
        /\ _rows = CSVValueAssignment(CSVBody(sheetData), hasHeader).rows
        /\ headers = CSVValueAssignment(CSVBody(sheetData), hasHeader).headers
        /\ _cols = CSVValueAssignment(CSVBody(sheetData), hasHeader).cols

\* C8: the fields are unset while the request is pending, and once the load
\* handler has run no step changes rows, cols, headers or hasHeader, or runs
\* the handler again.
C8_WriteOnce ==
    [][/\ (pc = "pending" => _rows = Undef /\ _cols = Undef /\ headers = Undef)
       /\ (pc # "pending" => UNCHANGED <<pc, _rows, _cols, headers, hasHeader>>)]_vars

C8_Witness ==
    /\ pc = "loaded"
    /\ result.op = "toString" /\ result.at = "loaded" /\ result.kind = "return"
    /\ Len(_rows.e) >= 2

Lines == Split(CSVBody(sheetData), NL)

\* C9 as claimed: the legacy handler, without headers, drops the last of the
\* N lines of the payload.
C9_LegacyDropsLastRow ==
    (pc = "loaded" /\ variant = "legacy" /\ ~hasHeader) =>
        /\ Len(_rows.e) = Len(Lines) - 1
        /\ \A r \in 1..(Len(Lines) - 1) : _rows.e[r] = StrArray(Split(Lines[r], COMMA))

\* C9 as amended: without headers both the legacy handler and the newer one
\* keep all N lines of the payload, in order.
C9_BothKeepAllRows ==
    (pc = "loaded" /\ CSVVariant /\ ~hasHeader) =>
        /\ Len(_rows.e) = Len(Lines)
        /\ \A r \in 1..Len(Lines) : _rows.e[r] = StrArray(Split(Lines[r], COMMA))

C9_Witness ==
    /\ pc = "loaded" /\ variant = "legacy" /\ ~hasHeader
    /\ Len(Lines) = 3
    /\ _rows.e[3] = StrArray(<<sheetData[3][1]>>)

\* C10: with headers, rows[r][c] and cols[c][r] are the payload's field c of
\* data row r, whatever the header texts.  Stated here for the CSV handlers
\* and a rectangular payload.
C10_AliasesKeepPositions ==
    (pc = "loaded" /\ CSVVariant /\ hasHeader /\ IsRect(sheetData)) =>
        \A r \in 0..(Len(sheetData) - 2), c \in 0..(Len(sheetData[1]) - 1) :
            /\ RowCell(r, c) = Str(sheetData[r + 2][c + 1])
            /\ ColCell(c, r) = Str(sheetData[r + 2][c + 1])

====
